---- MODULE Spec2Model ----
(***************************************************************************)
(* Model of the I2S-parallel LED matrix driver:                            *)
(*   src/src/i2s_parallel.c  descriptor rings, setup, buffer flip          *)
(*   src/src/app_main.c      bitplane scheduler, update_frame, app_main    *)
(*                                                                         *)
(* Pointers are modelled as values:                                        *)
(*   a data pointer     is <<j, p>> (bitplane[j][p], or segment p of the   *)
(*                      list j of a driver client) or NULL;                *)
(*   a descriptor       pointer is [ring |-> r, idx |-> k], the address of *)
(*                      element k of dmadesc_a (r = 0) or dmadesc_b (r = 1)*)
(* C arrays are functions over 0 .. n-1, so that the source's indices are  *)
(* kept; segment lists (bufdesc) are sequences, C index i is element i+1.  *)
(***************************************************************************)
EXTENDS Integers, Sequences, FiniteSets, TLC

\* ---------------------------------------------------------------- constants
DMA_MAX == 4092
DISPLAY_WIDTH == 128
DISPLAY_HEIGHT == 32
BITPLANE_CNT == 7
BITPLANE_SZ == (DISPLAY_WIDTH * DISPLAY_HEIGHT) \div 2
\* number of rows update_frame encodes (the literal 16 of its y loop)
FRAME_ROWS == 16

\* the bits of a 16 bit DMA word
BIT_R1 == 1
BIT_G1 == 2
BIT_B1 == 4
BIT_R2 == 8
BIT_G2 == 16
BIT_B2 == 32
BIT_A == 256
BIT_B == 512
BIT_C == 1024
BIT_D == 2048
BIT_LAT == 4096
BIT_OE == 8192
\* int brightness=16
DEFAULT_BRIGHTNESS == 16

\* the null pointer, of any pointer type
NULL == <<>>
\* an int that was never assigned
UNINIT == "uninit"
\* a descriptor record that was never written, or memory that is no record
UNINIT_DESC == [uninit |-> TRUE]

\* The framebuffer is given by the rule that generates its bytes (FbByte);
\* this is the framebuffer of a program that has drawn nothing yet
ZeroFrame == [add |-> 0, mul |-> 0, half |-> 0]
\* update_frame has written no row yet
NoRow == [mem |-> NULL, off |-> 0, y |-> 0]

\* ------------------------------------------------------------------- bounds
\* longest segment list (sentinel excluded) given to the builder alone
MaxFillSegs == 2
\* longest segment list (sentinel excluded) of a driver client
MaxSegs == 2
\* largest bitplane count the scheduler is run for
MaxBitplaneCnt == 7
\* largest bitplane count, besides BITPLANE_CNT, update_frame is run for
MaxFramePlanes == 2
\* segment sizes in bytes: around 0, DMA_MAX and 2*DMA_MAX
FillSizes == {0, 1, DMA_MAX - 1, DMA_MAX, DMA_MAX + 1, 2 * DMA_MAX, 2 * DMA_MAX + 1}
\* segment sizes of a driver client: one and two descriptors per segment
SegSizes == {DMA_MAX, BITPLANE_SZ * 2}

VARIABLES
    pc,          \* position of the software thread
    cnt,         \* the bitplane count the program was built with
    i,           \* app_main: loop index of the scheduler loop
    times,       \* app_main: int times[BITPLANE_CNT]
    order,       \* app_main: the plane indices printed as "Bitplane order"
    bufdesc,     \* the two segment lists (cfg.bufa, cfg.bufb)
    st,          \* i2s_state[no]: NULL or the state record
    fill_r,      \* i2s_parallel_setup: the ring being built (0 for a, 1 for b)
    calc_i,      \* calc_needed_dma_descs_for: loop index i
    calc_ret,    \* calc_needed_dma_descs_for: ret
    fill_i,      \* fill_dma_desc: segment index i
    fill_len,    \* fill_dma_desc: len, the bytes of the segment still to cover
    fill_off,    \* fill_dma_desc: data, as an offset into the segment
    fill_n,      \* fill_dma_desc: n, the number of records written
    fill_written,\* <<ring, index>> of the descriptor records fill_dma_desc wrote
    tx_start,    \* the peripheral has been started
    cur,         \* the descriptor the peripheral is transferring
    bufid,       \* argument of the i2s_parallel_flip_to_buffer call in progress
    last_flip,   \* bufid of the last flip that rewrote the tails, or -1
    backbuf_id,  \* update_frame: static int backbuf_id
    pl,          \* update_frame: plane loop index
    y,           \* update_frame: row loop index
    rows_done,   \* <<slot, plane, row>> written by the update_frame call in progress
    row_buf,     \* update_frame: where the x loop that ran last stored its row
    alloc_fails, \* the rings whose heap_caps_malloc of the pool returns NULL
    brightness,  \* int brightness
    framebuf     \* uint8_t framebuf[DISPLAY_WIDTH * DISPLAY_HEIGHT * 3]

vars == <<pc, cnt, i, times, order, bufdesc, st, fill_r, calc_i, calc_ret, fill_i, fill_len,
          fill_off, fill_n, fill_written, tx_start, cur, bufid, last_flip,
          backbuf_id, pl, y, rows_done, row_buf, alloc_fails, brightness,
          framebuf>>

\* what no modelled statement assigns: the heap's answers, the brightness the
\* program was built with, the picture in the framebuffer
envv == <<alloc_fails, brightness, framebuf>>

\* the variables of the ring build
fillv == <<fill_r, calc_i, calc_ret, fill_i, fill_len, fill_off, fill_n, fill_written>>

\* ------------------------------------------------------ i2s_parallel.c
Pow2(n) == 2 ^ n

\* (size + DMA_MAX - 1) / DMA_MAX
DescsForSize_plus1(size) == size \div DMA_MAX + 1
DescsForSize(size) == (size + DMA_MAX - 1) \div DMA_MAX

\* &dmadesc[k] of ring r
DescPtr(r, k) == [ring |-> r, idx |-> k]

\* the record a descriptor pointer refers to, UNINIT_DESC when it refers to
\* no record of the two pools
Deref(p) ==
    IF st = NULL \/ p = NULL THEN UNINIT_DESC
    ELSE LET arr == IF p.ring = 0 THEN st.dmadesc_a ELSE st.dmadesc_b
         IN  IF p.idx \in DOMAIN arr THEN arr[p.idx] ELSE UNINIT_DESC

\* the pool of ring r
pool_of(s, r) == IF r = 0 THEN s.dmadesc_a ELSE s.dmadesc_b

\* the state record with record k of the pool of ring r replaced; a write
\* outside the pool leaves the pool as it is
with_desc(s, r, k, rec) ==
    IF k \notin DOMAIN pool_of(s, r) THEN s
    ELSE IF r = 0 THEN [s EXCEPT !.dmadesc_a[k] = rec]
    ELSE [s EXCEPT !.dmadesc_b[k] = rec]

\* a pool of count records as the allocator returns it
fresh_pool(count) == [k \in 0 .. count - 1 |-> UNINIT_DESC]

\* heap_caps_malloc(count * sizeof(lldesc_t), MALLOC_CAP_DMA) for the pool
\* of ring r: NULL when the heap cannot satisfy it. (The malloc of the state
\* record itself is taken to succeed.)
heap_caps_malloc(r, count) == IF r \in alloc_fails THEN NULL ELSE fresh_pool(count)

\* i2s_parallel_setup, "Allocate DMA descriptors": the state record is
\* allocated and calc_needed_dma_descs_for(cfg->bufa) is entered
setup_alloc_a ==
    /\ pc = "setup_a"
    /\ st' = [desccount_a |-> UNINIT, dmadesc_a |-> NULL,
              desccount_b |-> UNINIT, dmadesc_b |-> NULL]
    /\ fill_r' = 0 /\ calc_i' = 0 /\ calc_ret' = 0
    /\ pc' = "calc"
    /\ UNCHANGED <<cnt, i, times, order, bufdesc, fill_i, fill_len, fill_off,
                   fill_n, fill_written, tx_start, cur, bufid, last_flip,
                   backbuf_id, pl, y, rows_done, row_buf, envv>>

\* calc_needed_dma_descs_for, one iteration of its loop; at the sentinel it
\* returns ret, which i2s_parallel_setup stores as the ring's desccount and
\* allocates that many records for, and fill_dma_desc is entered
calc_step ==
    /\ pc = "calc"
    /\ LET e == bufdesc[fill_r][calc_i + 1]
       IN  IF e.memory # NULL
           THEN /\ calc_ret' = calc_ret + DescsForSize(e.size)
                /\ calc_i' = calc_i + 1
                /\ UNCHANGED <<st, pc, fill_i, fill_len, fill_off, fill_n>>
           ELSE /\ st' = IF fill_r = 0
                         THEN [st EXCEPT !.desccount_a = calc_ret,
                                         !.dmadesc_a = heap_caps_malloc(0, calc_ret)]
                         ELSE [st EXCEPT !.desccount_b = calc_ret,
                                         !.dmadesc_b = heap_caps_malloc(1, calc_ret)]
                /\ fill_i' = 0 /\ fill_len' = 0 /\ fill_off' = 0 /\ fill_n' = 0
                /\ pc' = "fill"
                /\ UNCHANGED <<calc_i, calc_ret>>
    /\ UNCHANGED <<cnt, i, times, order, bufdesc, fill_r, fill_written, tx_start,
                   cur, bufid, last_flip, backbuf_id, pl, y, rows_done, row_buf, envv>>

\* index of the record whose next-reference the closing statement rewrites
CloseIdx_n(n) == n
CloseIdx(n) == n - 1

\* where i2s_parallel_setup continues when fill_dma_desc of ring r returns
after_fill_start(r) == "setup_start"
after_fill(r) == IF r = 0 THEN "setup_b" ELSE "setup_start"

\* fill_dma_desc, the head of the for loop: the next segment is taken up, or
\* at the sentinel the loop is left, the last record is linked back to the
\* first and the function returns
fill_seg ==
    /\ pc = "fill"
    /\ fill_len = 0
    /\ LET e == bufdesc[fill_r][fill_i + 1]
       IN  IF e.memory # NULL
           THEN /\ fill_len' = e.size
                /\ fill_off' = 0
                /\ fill_i' = fill_i + 1
                /\ UNCHANGED <<st, fill_written, pc>>
           ELSE LET last == CloseIdx(fill_n)
                    old == Deref(DescPtr(fill_r, last))
                IN  /\ st' = IF old = UNINIT_DESC
                             THEN with_desc(st, fill_r, last,
                                            [next |-> DescPtr(fill_r, 0)])
                             ELSE with_desc(st, fill_r, last,
                                            [old EXCEPT !.next = DescPtr(fill_r, 0)])
                    /\ fill_written' = fill_written \cup {<<fill_r, last>>}
                    /\ pc' = after_fill(fill_r)
                    /\ UNCHANGED <<fill_len, fill_off, fill_i>>
    /\ UNCHANGED <<cnt, i, times, order, bufdesc, fill_r, calc_i, calc_ret,
                   fill_n, tx_start, cur, bufid, last_flip, backbuf_id, pl, y,
                   rows_done, row_buf, envv>>

\* dmalen of fill_dma_desc: len, or DMA_MAX if len is more
chunk_len_uncapped(len) == len
chunk_len(len) == IF len > DMA_MAX THEN DMA_MAX ELSE len

\* fill_dma_desc, one iteration of while (len): record n is written
fill_chunk ==
    /\ pc = "fill"
    /\ fill_len # 0
    /\ LET dmalen == chunk_len(fill_len)
           rec == [size |-> dmalen, length |-> dmalen,
                   buf |-> [mem |-> bufdesc[fill_r][fill_i].memory,
                            off |-> fill_off],
                   eof |-> 0, sosf |-> 0, owner |-> 1,
                   next |-> DescPtr(fill_r, fill_n + 1), offset |-> 0]
       IN  /\ st' = with_desc(st, fill_r, fill_n, rec)
           /\ fill_written' = fill_written \cup {<<fill_r, fill_n>>}
           /\ fill_len' = fill_len - dmalen
           /\ fill_off' = fill_off + dmalen
           /\ fill_n' = fill_n + 1
    /\ UNCHANGED <<pc, cnt, i, times, order, bufdesc, fill_r, calc_i, calc_ret,
                   fill_i, tx_start, cur, bufid, last_flip, backbuf_id, pl, y,
                   rows_done, row_buf, envv>>

\* fill_dma_desc stores through dmadesc although the allocation returned
\* NULL. The behaviour is undefined: the store lands somewhere and the
\* function goes on (fill_chunk, fill_seg), or the processor traps on it.
null_store_trap ==
    /\ pc = "fill"
    /\ fill_r \in alloc_fails
    /\ fill_len # 0 \/ bufdesc[fill_r][fill_i + 1].memory = NULL
    /\ pc' = "trap"
    /\ UNCHANGED <<cnt, i, times, order, bufdesc, st, fillv, tx_start, cur,
                   bufid, last_flip, backbuf_id, pl, y, rows_done, row_buf, envv>>

\* i2s_parallel_setup, if (cfg->bufb): calc_needed_dma_descs_for(cfg->bufb)
\* is entered; else desccount_b = 0
setup_alloc_b ==
    /\ pc = "setup_b"
    /\ IF bufdesc[1] # NULL
       THEN /\ fill_r' = 1 /\ calc_i' = 0 /\ calc_ret' = 0
            /\ pc' = "calc"
            /\ UNCHANGED st
       ELSE /\ st' = [st EXCEPT !.desccount_b = 0]
            /\ pc' = "setup_start"
            /\ UNCHANGED <<fill_r, calc_i, calc_ret>>
    /\ UNCHANGED <<cnt, i, times, order, bufdesc, fill_i, fill_len, fill_off,
                   fill_n, fill_written, tx_start, cur, bufid, last_flip,
                   backbuf_id, pl, y, rows_done, row_buf, envv>>

\* the descriptor the transfer is started on: out_link.addr = &st->dmadesc_a[0]
StartDesc == DescPtr(0, 0)

\* i2s_parallel_setup, "Start dma on front buffer"
setup_start ==
    /\ pc = "setup_start"
    /\ cur' = StartDesc
    /\ tx_start' = TRUE
    /\ pc' = "ready"
    /\ UNCHANGED <<cnt, i, times, order, bufdesc, st, fillv, bufid,
                   last_flip, backbuf_id, pl, y, rows_done, row_buf, envv>>

\* The output peripheral: having transferred the descriptor it is on, it
\* loads the descriptor its next-reference (qe.stqe_next) names.
peripheral_step ==
    /\ tx_start
    /\ Deref(cur) # UNINIT_DESC
    /\ cur' = Deref(cur).next
    /\ UNCHANGED <<pc, cnt, i, times, order, bufdesc, st, fillv, tx_start,
                   bufid, last_flip, backbuf_id, pl, y, rows_done, row_buf, envv>>

\* active_dma_chain of i2s_parallel_flip_to_buffer
active_dma_chain_same(b) == DescPtr(0, 0)
active_dma_chain(b) == IF b = 0 THEN DescPtr(0, 0) ELSE DescPtr(1, 0)

\* index of the tail of ring A: desccount_a-1
tail_a_head(s) == 0
tail_a(s) == s.desccount_a - 1

\* index of the tail of ring B: desccount_b-1
tail_b_head(s) == 0
tail_b(s) == s.desccount_b - 1

\* where i2s_parallel_flip_to_buffer goes when i2s_state[no] == NULL: return
no_state_exit_abort == "abort"
no_state_exit == "flip_ret"

\* "not using double buffering mode": desccount_b <= 0
single_ring_lt(s) == s.desccount_b < 0
single_ring(s) == s.desccount_b <= 0

\* i2s_parallel_flip_to_buffer up to and including the store to ring A's
\* tail; the two early returns leave everything as it is
flip_enter ==
    /\ pc = "flip"
    /\ IF st = NULL
       THEN /\ pc' = no_state_exit
            /\ UNCHANGED st
       ELSE IF single_ring(st)
       THEN /\ pc' = "flip_ret"
            /\ UNCHANGED st
       ELSE /\ st' = [st EXCEPT !.dmadesc_a[tail_a(st)].next =
                                     active_dma_chain(bufid)]
            /\ pc' = "flip_b"
    /\ UNCHANGED <<cnt, i, times, order, bufdesc, fillv, tx_start, cur,
                   bufid, last_flip, backbuf_id, pl, y, rows_done, row_buf, envv>>

\* i2s_parallel_flip_to_buffer, the store to ring B's tail, and the return
flip_store_b ==
    /\ pc = "flip_b"
    /\ st' = [st EXCEPT !.dmadesc_b[tail_b(st)].next =
                            active_dma_chain(bufid)]
    /\ last_flip' = bufid
    /\ pc' = "flip_ret"
    /\ UNCHANGED <<cnt, i, times, order, bufdesc, fillv, tx_start, cur,
                   bufid, backbuf_id, pl, y, rows_done, row_buf, envv>>

\* ------------------------------------------------- a client of the driver
\* A client calls i2s_parallel_setup once, with one or two segment lists,
\* and i2s_parallel_flip_to_buffer with any bufid at any time.
Entry(mem, size) == [memory |-> mem, size |-> size]

\* all lists of 1 .. n segments of list j, sizes from S, with their sentinel
RECURSIVE SegLists(_, _, _)
SegLists(j, n, S) ==
    IF n = 0 THEN {<<>>}
    ELSE LET shorter == SegLists(j, n - 1, S)
         IN  shorter \cup
             {Append(l, Entry(<<j, Len(l)>>, s)) :
                 l \in {m \in shorter : Len(m) = n - 1}, s \in S}

WithSentinel(l) == Append(l, Entry(NULL, 0))

ClientLists(j) == {WithSentinel(l) : l \in SegLists(j, MaxSegs, SegSizes) \ {<<>>}}

\* the bufid arguments a client passes
FlipArgs == {0, 1, 2}

drv_setup_call ==
    /\ pc = "pre"
    /\ pc' = "setup_a"
    /\ UNCHANGED <<cnt, i, times, order, bufdesc, st, fillv, tx_start, cur,
                   bufid, last_flip, backbuf_id, pl, y, rows_done, row_buf, envv>>

drv_flip_call ==
    /\ pc \in {"pre", "ready"}
    /\ \E b \in FlipArgs : bufid' = b
    /\ pc' = "flip"
    /\ UNCHANGED <<cnt, i, times, order, bufdesc, st, fillv, tx_start, cur,
                   last_flip, backbuf_id, pl, y, rows_done, row_buf, envv>>

drv_flip_return ==
    /\ pc = "flip_ret"
    /\ pc' = IF st = NULL THEN "pre" ELSE "ready"
    /\ UNCHANGED <<cnt, i, times, order, bufdesc, st, fillv, tx_start, cur,
                   bufid, last_flip, backbuf_id, pl, y, rows_done, row_buf, envv>>

InitDrv ==
    /\ pc = "pre"
    /\ bufdesc \in {[j \in {0, 1} |-> IF j = 0 THEN a ELSE b] :
                       a \in ClientLists(0), b \in ClientLists(1) \cup {NULL}}
    /\ st = NULL
    /\ fill_r = 0 /\ calc_i = 0 /\ calc_ret = 0 /\ fill_i = 0 /\ fill_len = 0 /\ fill_off = 0 /\ fill_n = 0
    /\ fill_written = {}
    /\ tx_start = FALSE
    /\ cur = NULL
    /\ bufid = 0
    /\ last_flip = -1
    /\ cnt = 0 /\ i = 0 /\ times = <<>> /\ order = <<>>
    /\ backbuf_id = 0 /\ pl = 0 /\ y = 0 /\ rows_done = {}
    /\ row_buf = NoRow /\ alloc_fails = {}
    /\ brightness = DEFAULT_BRIGHTNESS /\ framebuf = ZeroFrame

NextDrv ==
    \/ drv_setup_call
    \/ setup_alloc_a
    \/ calc_step
    \/ fill_seg
    \/ fill_chunk
    \/ setup_alloc_b
    \/ setup_start
    \/ drv_flip_call
    \/ flip_enter
    \/ flip_store_b
    \/ drv_flip_return
    \/ peripheral_step

SpecDrv == InitDrv /\ [][NextDrv]_vars

SpecDrvLive == SpecDrv /\ WF_vars(peripheral_step)


\* -------------------------------------------------------------- app_main.c
\* a pointer that was never assigned
UNINIT_PTR == <<UNINIT>>

\* the inner loop of the scheduler: for (j...) if (times[j]<=times[ch]) ch=j;
RECURSIVE find_plane_loop(_, _, _, _)
find_plane_loop(t, n, j, ch) ==
    IF j >= n THEN ch
    ELSE find_plane_loop(t, n, j + 1, IF t[j] <= t[ch] THEN j ELSE ch)

find_plane_first(t, n) ==
    LET S == {j \in 0 .. n - 1 : t[j] <= t[0]}
    IN  CHOOSE j \in S : \A k \in S : k <= j
find_plane_strict(t, n) ==
    CHOOSE j \in 0 .. n - 1 :
        /\ \A k \in 0 .. n - 1 : t[j] <= t[k]
        /\ \A k \in 0 .. n - 1 : t[k] = t[j] => j <= k
find_plane(t, n) == find_plane_loop(t, n, 0, 0)

\* what the chosen plane's counter grows by: 1<<(BITPLANE_CNT-ch)
plane_increment_rev(n, ch) == Pow2(ch)
plane_increment(n, ch) == Pow2(n - ch)

\* bitplane[j][ch], the buffer of plane ch of slot j
bitplane_ptr_front(j, ch) == <<0, ch>>
bitplane_ptr(j, ch) == <<j, ch>>

\* app_main: one iteration of the "binary time division setup" loop
sched_step ==
    /\ pc = "sched"
    /\ i < Pow2(cnt) - 1
    /\ LET ch == find_plane(times, cnt)
       IN  /\ order' = Append(order, ch)
           /\ bufdesc' = [j \in {0, 1} |->
                             [bufdesc[j] EXCEPT ![i + 1] =
                                 Entry(bitplane_ptr(j, ch), BITPLANE_SZ * 2)]]
           /\ times' = [times EXCEPT ![ch] = @ + plane_increment(cnt, ch)]
    /\ i' = i + 1
    /\ UNCHANGED <<pc, cnt, st, fillv, tx_start, cur, bufid, last_flip,
                   backbuf_id, pl, y, rows_done, row_buf, envv>>

\* app_main: the loop is left, the end markers are set and
\* i2s_parallel_setup is called
sched_end ==
    /\ pc = "sched"
    /\ ~(i < Pow2(cnt) - 1)
    /\ bufdesc' = [j \in {0, 1} |->
                      [bufdesc[j] EXCEPT ![(Pow2(cnt) - 1) + 1].memory = NULL]]
    /\ pc' = "setup_a"
    /\ UNCHANGED <<cnt, i, times, order, st, fillv, tx_start, cur, bufid,
                   last_flip, backbuf_id, pl, y, rows_done, row_buf, envv>>

\* ------------------------------------------------------------ update_frame
\* byte k of the framebuffer: add + mul * k, plus half for the bytes of the
\* lower half of the picture (rows 16 .. 31), as a uint8_t
HALF_BYTES == DISPLAY_WIDTH * 16 * 3
FbByte(fb, k) == (fb.add + fb.mul * k + fb.half * (k \div HALF_BYTES)) % 256

\* getPixel: p = &buf[(x + y * DISPLAY_WIDTH) * 3]; (p[0]<<16)|(p[1]<<8)|p[2]
getPixel(buf, xx, yy) ==
    LET p == (xx + yy * DISPLAY_WIDTH) * 3
    IN  FbByte(buf, p) * 65536 + FbByte(buf, p + 1) * 256 + FbByte(buf, p + 2)

\* v & m is non-zero, for m a single bit and v not negative
Test(v, m) == (v \div m) % 2 = 1

\* y-1 of the unsigned int y, as its two 16 bit halves
u32_dec_none(v) == [hi |-> v \div 65536, lo |-> v % 65536]
u32_dec(v) ==
    IF v = 0 THEN [hi |-> 65535, lo |-> 65535]
    ELSE [hi |-> (v - 1) \div 65536, lo |-> (v - 1) % 65536]

\* "Precalculate line bits of the *previous* line": lbits for row yy
line_bits(yy) ==
    LET d == u32_dec(yy).lo
    IN  (IF Test(d, 1) THEN BIT_A ELSE 0) + (IF Test(d, 2) THEN BIT_B ELSE 0)
        + (IF Test(d, 4) THEN BIT_C ELSE 0) + (IF Test(d, 8) THEN BIT_D ELSE 0)

\* x >= brightness
blank_gt(xx, br) == xx > br
blank(xx, br) == xx >= br

\* x == (DISPLAY_WIDTH - 1)
latch_swapped(xx) == xx = DISPLAY_WIDTH - 2
latch(xx) == xx = DISPLAY_WIDTH - 1

\* mask=(1<<(8-BITPLANE_CNT+pl)), for a program built with n bitplanes
plane_mask_low(n, p) == Pow2(p)
plane_mask(n, p) == Pow2(8 - n + p)

\* the body of the x loop, with the mask of the plane and the lbits of the
\* row: the value *p++=v stores, as a uint16_t
frame_word(mask, lbits, br, fb, yy, xx) ==
    LET c1 == getPixel(fb, xx, yy)
        c2 == getPixel(fb, xx, yy + 16)
        v == lbits
             + (IF blank(xx, br) THEN BIT_OE ELSE 0)
             + (IF latch(xx) THEN BIT_LAT ELSE 0)
             + (IF Test(c1, mask * 65536) THEN BIT_R1 ELSE 0)
             + (IF Test(c1, mask * 256) THEN BIT_G1 ELSE 0)
             + (IF Test(c1, mask) THEN BIT_B1 ELSE 0)
             + (IF Test(c2, mask * 65536) THEN BIT_R2 ELSE 0)
             + (IF Test(c2, mask * 256) THEN BIT_G2 ELSE 0)
             + (IF Test(c2, mask) THEN BIT_B2 ELSE 0)
    IN  v % 65536

\* the word the x loop that ran last stored for column xx of its row
written_word(xx) ==
    frame_word(plane_mask(cnt, row_buf.mem[2]), line_bits(row_buf.y),
               brightness, framebuf, row_buf.y, xx)

\* update_frame is called: its loops start at plane 0, row 0
update_frame_enter ==
    /\ pc = "ready"
    /\ pc' = "frame"
    /\ pl' = 0
    /\ y' = 0
    /\ rows_done' = {}
    /\ row_buf' = NoRow
    /\ UNCHANGED <<cnt, i, times, order, bufdesc, st, fillv, tx_start,
                   cur, bufid, last_flip, backbuf_id, envv>>

\* y<16 holds for the next row
more_rows(r) == r + 1 < FRAME_ROWS

\* pl<BITPLANE_CNT holds for the next plane
more_planes_short(p) == p + 2 < cnt
more_planes(p) == p + 1 < cnt

\* update_frame: the x loop for plane pl and row y, which writes the
\* DISPLAY_WIDTH words of the row through p into bitplane[backbuf_id][pl],
\* from word y * DISPLAY_WIDTH on (p started at word 0 and grew by one with
\* every word). The state keeps where the row went (row_buf); what the loop
\* stored there is frame_word of that plane, row and column (written_word),
\* since nothing assigns brightness or framebuf while update_frame runs. After the
\* last row of the last plane the flip is called with backbuf_id
write_row ==
    /\ pc = "frame"
    /\ rows_done' = rows_done \cup {<<backbuf_id, pl, y>>}
    /\ row_buf' = [mem |-> <<backbuf_id, pl>>, off |-> y * DISPLAY_WIDTH, y |-> y]
    /\ IF more_rows(y)
       THEN /\ y' = y + 1
            /\ UNCHANGED <<pl, pc, bufid>>
       ELSE IF more_planes(pl)
       THEN /\ pl' = pl + 1
            /\ y' = 0
            /\ UNCHANGED <<pc, bufid>>
       ELSE /\ pc' = "flip"
            /\ bufid' = backbuf_id
            /\ UNCHANGED <<pl, y>>
    /\ UNCHANGED <<cnt, i, times, order, bufdesc, st, fillv, tx_start,
                   cur, last_flip, backbuf_id, envv>>

\* update_frame after the flip returned: backbuf_id ^= 1
update_frame_exit ==
    /\ pc = "flip_ret"
    /\ backbuf_id' = 1 - backbuf_id
    /\ pc' = "ready"
    /\ UNCHANGED <<cnt, i, times, order, bufdesc, st, fillv, tx_start,
                   cur, bufid, last_flip, pl, y, rows_done, row_buf, envv>>

\* app_main entered, with the program built for n bitplanes and a brightness
\* of br, and with the picture fb in the framebuffer
InitProgram(n, br, fb) ==
    /\ pc = "sched"
    /\ cnt = n
    /\ i = 0
    /\ times = [j \in 0 .. n - 1 |-> 0]
    /\ order = <<>>
    /\ bufdesc = [j \in {0, 1} |-> [k \in 1 .. Pow2(n) |-> Entry(UNINIT_PTR, UNINIT)]]
    /\ st = NULL
    /\ fill_r = 0 /\ calc_i = 0 /\ calc_ret = 0 /\ fill_i = 0 /\ fill_len = 0 /\ fill_off = 0 /\ fill_n = 0
    /\ fill_written = {}
    /\ tx_start = FALSE
    /\ cur = NULL
    /\ bufid = 0
    /\ last_flip = -1
    /\ backbuf_id = 0 /\ pl = 0 /\ y = 0 /\ rows_done = {}
    /\ row_buf = NoRow /\ alloc_fails = {}
    /\ brightness = br /\ framebuf = fb

InitApp(n) == InitProgram(n, DEFAULT_BRIGHTNESS, ZeroFrame)

Init == InitApp(BITPLANE_CNT)

Next ==
    \/ sched_step
    \/ sched_end
    \/ setup_alloc_a
    \/ calc_step
    \/ fill_seg
    \/ fill_chunk
    \/ setup_alloc_b
    \/ setup_start
    \/ update_frame_enter
    \/ write_row
    \/ flip_enter
    \/ flip_store_b
    \/ update_frame_exit
    \/ peripheral_step

Spec == Init /\ [][Next]_vars

\* ------------------------------------- the scheduler for every plane count
InitSched == \E n \in 1 .. MaxBitplaneCnt : InitApp(n)

NextSched == sched_step \/ sched_end

SpecSched == InitSched /\ [][NextSched]_vars

\* --------------------------------------------- the chain builder on its own
\* i2s_parallel_setup's allocate-and-fill of ring A, for every segment list:
\* empty lists, zero-size segments and entries behind the sentinel included.
FillLists ==
    LET body == SegLists(0, MaxFillSegs, FillSizes)
    IN  {WithSentinel(l) : l \in body} \cup
        {WithSentinel(l) \o <<Entry(<<0, Len(l) + 1>>, DMA_MAX + 1)>> : l \in body}

InitFill ==
    /\ pc = "setup_a"
    /\ bufdesc \in {[j \in {0, 1} |-> IF j = 0 THEN a ELSE NULL] : a \in FillLists}
    /\ st = NULL
    /\ fill_r = 0 /\ calc_i = 0 /\ calc_ret = 0 /\ fill_i = 0 /\ fill_len = 0 /\ fill_off = 0 /\ fill_n = 0
    /\ fill_written = {}
    /\ tx_start = FALSE
    /\ cur = NULL
    /\ bufid = 0
    /\ last_flip = -1
    /\ cnt = 0 /\ i = 0 /\ times = <<>> /\ order = <<>>
    /\ backbuf_id = 0 /\ pl = 0 /\ y = 0 /\ rows_done = {}
    /\ row_buf = NoRow /\ alloc_fails = {}
    /\ brightness = DEFAULT_BRIGHTNESS /\ framebuf = ZeroFrame

NextFill == setup_alloc_a \/ calc_step \/ fill_seg \/ fill_chunk

SpecFill == InitFill /\ [][NextFill]_vars

\* --------------------------------------- update_frame on any picture
\* The program built with any bitplane count up to MaxFramePlanes or with
\* BITPLANE_CNT, and with any brightness, encoding any of the Pictures. The
\* peripheral, which only reads what update_frame writes, is left out.
FramePlanes == (1 .. MaxFramePlanes) \cup {BITPLANE_CNT}

\* around the ends of the range the comment of brightness gives
Brightnesses == {0, 1, DEFAULT_BRIGHTNESS, DISPLAY_WIDTH - 1, DISPLAY_WIDTH}

Pictures ==
    {ZeroFrame,
     [add |-> 255, mul |-> 0, half |-> 0],
     [add |-> 3, mul |-> 37, half |-> 85],
     [add |-> 0, mul |-> 1, half |-> 128]}

InitFrame ==
    \E n \in FramePlanes, br \in Brightnesses, fb \in Pictures :
        InitProgram(n, br, fb)

NextFrame ==
    \/ sched_step
    \/ sched_end
    \/ setup_alloc_a
    \/ calc_step
    \/ fill_seg
    \/ fill_chunk
    \/ setup_alloc_b
    \/ setup_start
    \/ update_frame_enter
    \/ write_row
    \/ flip_enter
    \/ flip_store_b
    \/ update_frame_exit

SpecFrame == InitFrame /\ [][NextFrame]_vars

\* ------------------------------- i2s_parallel_setup on any configuration
\* i2s_parallel_setup for every segment list (empty lists and zero-size
\* segments included), with and without cfg->bufb, and for every answer of
\* the heap to the two pool allocations.
SetupListsB == {NULL} \cup {WithSentinel(<<Entry(<<1, 0>>, s)>>) : s \in SegSizes}

InitSetup ==
    /\ pc = "setup_a"
    /\ bufdesc \in {[j \in {0, 1} |-> IF j = 0 THEN a ELSE b] :
                       a \in FillLists, b \in SetupListsB}
    /\ alloc_fails \in SUBSET {0, 1}
    /\ st = NULL
    /\ fill_r = 0 /\ calc_i = 0 /\ calc_ret = 0
    /\ fill_i = 0 /\ fill_len = 0 /\ fill_off = 0 /\ fill_n = 0
    /\ fill_written = {}
    /\ tx_start = FALSE
    /\ cur = NULL
    /\ bufid = 0
    /\ last_flip = -1
    /\ cnt = 0 /\ i = 0 /\ times = <<>> /\ order = <<>>
    /\ backbuf_id = 0 /\ pl = 0 /\ y = 0 /\ rows_done = {}
    /\ row_buf = NoRow
    /\ brightness = DEFAULT_BRIGHTNESS /\ framebuf = ZeroFrame

NextSetup ==
    \/ setup_alloc_a
    \/ calc_step
    \/ fill_seg
    \/ fill_chunk
    \/ null_store_trap
    \/ setup_alloc_b
    \/ setup_start
    \/ peripheral_step

SpecSetup == InitSetup /\ [][NextSetup]_vars

\* ------------------------------------------------------------------ claims
RingHead(s) == [ring |-> s, idx |-> 0]
SlotOf(b) == IF b = 0 THEN 0 ELSE 1
\* cfg->bufb was given
DoubleBuffer == bufdesc[1] # NULL
Pool(r) == IF r = 0 THEN st.dmadesc_a ELSE st.dmadesc_b
Count(r) == IF r = 0 THEN st.desccount_a ELSE st.desccount_b
IsTail(p) == p.idx = Count(p.ring) - 1

\* C2: in double-buffer mode, when i2s_parallel_flip_to_buffer(dev, bufid)
\* returns, the next-reference of the last descriptor of ring A and of the
\* last descriptor of ring B both point at the first descriptor of the ring
\* bufid selects (A for 0, B otherwise).
C2_FlipRetargetsBothTails ==
    (pc = "flip_ret" /\ st # NULL /\ DoubleBuffer) =>
        /\ st.dmadesc_a[st.desccount_a - 1].next = RingHead(SlotOf(bufid))
        /\ st.dmadesc_b[st.desccount_b - 1].next = RingHead(SlotOf(bufid))

\* a flip to ring B has returned while the peripheral is still inside ring A
C2_Witness ==
    /\ pc = "flip_ret" /\ st # NULL /\ DoubleBuffer
    /\ bufid = 2 /\ st.desccount_b > 1
    /\ tx_start /\ cur = DescPtr(0, 1)

\* C3: the peripheral changes ring only by leaving a tail descriptor and
\* entering the head of the other ring; from a non-tail descriptor it always
\* goes to the array successor in the same ring.
C3_RingChangeOnlyAtTail ==
    [][(tx_start /\ tx_start' /\ cur' # cur) =>
          /\ (cur'.ring # cur.ring => IsTail(cur) /\ cur' = RingHead(cur'.ring))
          /\ (~IsTail(cur) => cur' = DescPtr(cur.ring, cur.idx + 1))]_vars

\* the peripheral is at the head of ring B, rings of more than one descriptor
C3_Witness ==
    /\ tx_start /\ cur = RingHead(1)
    /\ st.desccount_a > 1 /\ st.desccount_b > 1
    /\ last_flip = 1

\* the last flip that returned selected ring s, and no flip is in progress
FlipSettled(s) ==
    /\ last_flip # -1 /\ SlotOf(last_flip) = s
    /\ pc \notin {"flip", "flip_b"}

\* C4: in double-buffer mode, once a flip to ring s has returned and no later
\* flip is issued, the peripheral, which keeps stepping, eventually transfers
\* descriptors of ring s only, for ever.
C4_EventuallyOnlySelectedRing ==
    \A s \in {0, 1} : <>[]FlipSettled(s) => <>[](tx_start /\ cur.ring = s)

\* a flip to ring B has returned, the peripheral is in the middle of ring A
C4_Witness ==
    /\ FlipSettled(1) /\ pc = "ready"
    /\ tx_start /\ cur.ring = 0 /\ ~IsTail(cur)

\* index the next-reference of record k of pool d leads to, -1 when it does
\* not lead to a record of ring r
SuccIdx(d, r, k) ==
    IF k \in DOMAIN d /\ d[k] # UNINIT_DESC /\ d[k].next.ring = r
       /\ d[k].next.idx \in DOMAIN d
    THEN d[k].next.idx
    ELSE -1

\* the indices visited in steps steps from k, k first
RECURSIVE Walk(_, _, _, _)
Walk(d, r, k, steps) ==
    IF steps = 0 \/ k = -1 THEN <<>>
    ELSE <<k>> \o Walk(d, r, SuccIdx(d, r, k), steps - 1)

ClosedCycle(d, r, n) ==
    \A k \in 0 .. n - 1 :
        LET w == Walk(d, r, k, n)
        IN  /\ Len(w) = n
            /\ {w[j] : j \in 1 .. n} = 0 .. n - 1
            /\ SuccIdx(d, r, w[n]) = k

\* C5: the ring fill_dma_desc built is a closed cycle: from any descriptor,
\* following the next-references visits every descriptor of the ring exactly
\* once and then returns to the start.
C5_RingIsClosedCycle ==
    pc = "setup_b" =>
        /\ DOMAIN st.dmadesc_a = 0 .. st.desccount_a - 1
        /\ ClosedCycle(st.dmadesc_a, 0, st.desccount_a)

\* a ring of five descriptors built from two segments
C5_Witness ==
    /\ pc = "setup_b" /\ st.desccount_a = 5
    /\ bufdesc[0][1].size = 2 * DMA_MAX + 1 /\ bufdesc[0][2].size = 2 * DMA_MAX

RingBuilt(r) ==
    LET d == Pool(r)
        n == Count(r)
    IN  /\ d # NULL
        /\ n >= 1
        /\ DOMAIN d = 0 .. n - 1
        /\ \A k \in 0 .. n - 1 :
              /\ d[k] # UNINIT_DESC
              /\ k < n - 1 => d[k].next = DescPtr(r, k + 1)
        /\ d[n - 1].next \in {RingHead(0), RingHead(1)}

\* C6: whenever the peripheral is running, the rings are completely filled,
\* every non-tail next-reference is the array successor, every tail
\* next-reference is the head of ring A or of ring B, and the descriptor the
\* peripheral is on is a record of one of the rings.
C6_RunningRingsWellFormed ==
    tx_start =>
        /\ RingBuilt(0)
        /\ DoubleBuffer => RingBuilt(1)
        /\ Deref(cur) # UNINIT_DESC

\* the peripheral is in ring B while a flip has rewritten one tail only
C6_Witness ==
    /\ tx_start /\ DoubleBuffer /\ pc = "flip_b"
    /\ cur.ring = 1
    /\ st.dmadesc_a[st.desccount_a - 1].next # st.dmadesc_b[st.desccount_b - 1].next

\* the segments of a list before its sentinel
RECURSIVE Segments(_, _)
Segments(bd, k) ==
    IF bd[k + 1].memory = NULL THEN <<>>
    ELSE <<bd[k + 1]>> \o Segments(bd, k + 1)

Ceil(a, b) == IF a % b = 0 THEN a \div b ELSE a \div b + 1

RECURSIVE SumSizes(_)
SumSizes(segs) == IF segs = <<>> THEN 0 ELSE Head(segs).size + SumSizes(Tail(segs))

RECURSIVE SumCeils(_)
SumCeils(segs) ==
    IF segs = <<>> THEN 0
    ELSE Ceil(Head(segs).size, DMA_MAX) + SumCeils(Tail(segs))

NonZeroSizes(segs) == \A k \in 1 .. Len(segs) : segs[k].size # 0

\* the number of records of ring A fill_dma_desc wrote into
NumFilled == Cardinality({w \in fill_written : w[1] = 0 /\ w[2] >= 0})

\* C7 as claimed: for segments of non-zero size the number of descriptors of
\* the ring is the ceiling of total_size / DMA_MAX.
C7_CountIsCeilOfTotal ==
    (pc = "setup_b" /\ NonZeroSizes(Segments(bufdesc[0], 0))) =>
        /\ st.desccount_a = Ceil(SumSizes(Segments(bufdesc[0], 0)), DMA_MAX)
        /\ NumFilled = Ceil(SumSizes(Segments(bufdesc[0], 0)), DMA_MAX)

\* C7 as amended: for segments of non-zero size the number of descriptors
\* calc_needed_dma_descs_for returns, and the number fill_dma_desc writes, is
\* the sum over the segments of the ceiling of size / DMA_MAX, which is never
\* less than the ceiling of total_size / DMA_MAX.
C7_CountIsSumOfCeils ==
    (pc = "setup_b" /\ NonZeroSizes(Segments(bufdesc[0], 0))) =>
        /\ st.desccount_a = SumCeils(Segments(bufdesc[0], 0))
        /\ NumFilled = SumCeils(Segments(bufdesc[0], 0))
        /\ st.desccount_a >= Ceil(SumSizes(Segments(bufdesc[0], 0)), DMA_MAX)

\* two segments whose descriptors number more than the ceiling of the total
C7_Witness ==
    /\ pc = "setup_b"
    /\ Len(Segments(bufdesc[0], 0)) = 2
    /\ NonZeroSizes(Segments(bufdesc[0], 0))
    /\ st.desccount_a = 4
    /\ Ceil(SumSizes(Segments(bufdesc[0], 0)), DMA_MAX) = 3


\* the slot whose buffers update_frame is writing is the slot of the ring
\* the peripheral is in
WritingWalkedSlot == pc = "frame" /\ tx_start /\ cur.ring = backbuf_id

\* C1: update_frame never writes a bitplane buffer of the slot whose ring
\* the peripheral is walking: while update_frame is in its write loops on
\* bitplane[backbuf_id][*], the descriptor the peripheral is transferring
\* does not belong to ring backbuf_id.
C1_NeverWritesWalkedSlot == ~WritingWalkedSlot

\* the ordering the scheduler left in the segment list of slot j
Ordering(j) == [k \in 1 .. Pow2(cnt) - 1 |-> bufdesc[j][k].memory[2]]

PlaneCount(o, p) == Cardinality({k \in DOMAIN o : o[k] = p})

OrderingShape ==
    /\ Len(order) = Pow2(cnt) - 1
    /\ Ordering(0) = order
    /\ Ordering(1) = order
    /\ \A k \in 1 .. Len(order) : order[k] \in 0 .. cnt - 1
    /\ \A j \in {0, 1} : \A k \in 1 .. Len(order) :
          bufdesc[j][k] = Entry(<<j, order[k]>>, BITPLANE_SZ * 2)

\* C8 as claimed: the ordering has length 2^BITPLANE_CNT - 1 over the plane
\* indices, and plane p appears in it 2^(BITPLANE_CNT-1-p) times.
C8_PlaneCountsDescending ==
    pc = "setup_a" =>
        /\ OrderingShape
        /\ \A p \in 0 .. cnt - 1 : PlaneCount(Ordering(0), p) = Pow2(cnt - 1 - p)

\* C8 as amended: the ordering has length 2^BITPLANE_CNT - 1 over the plane
\* indices, and plane p appears in it 2^p times.
C8_PlaneCountsAscending ==
    pc = "setup_a" =>
        /\ OrderingShape
        /\ \A p \in 0 .. cnt - 1 : PlaneCount(Ordering(0), p) = Pow2(p)

\* the ordering for seven planes is complete: 127 positions, plane 6 on 64
C8_Witness ==
    /\ pc = "setup_a" /\ cnt = BITPLANE_CNT
    /\ Len(order) = 127
    /\ PlaneCount(Ordering(0), 6) = 64 /\ PlaneCount(Ordering(0), 0) = 1

\* the distances between consecutive occurrences of plane p in o
Gaps(o, p) ==
    {b - a : <<a, b>> \in
        {q \in (DOMAIN o) \X (DOMAIN o) :
            /\ q[1] < q[2] /\ o[q[1]] = p /\ o[q[2]] = p
            /\ \A m \in (q[1] + 1) .. (q[2] - 1) : o[m] # p}}

Abs(v) == IF v < 0 THEN -v ELSE v

\* every gap g of every plane is within num/den slots of length / occurrences
SpacingWithin(o, n, num, den) ==
    \A p \in 0 .. n - 1 :
        LET c == PlaneCount(o, p)
        IN  \A g \in Gaps(o, p) : den * Abs(c * g - Len(o)) <= num * c

\* C9 as claimed: for BITPLANE_CNT = 3 the distance between two consecutive
\* occurrences of a plane differs by at most one slot from the even spacing,
\* the ordering's length divided by the plane's number of occurrences.
C9_SpacingWithinOneSlot ==
    (pc = "setup_a" /\ cnt = 3) => SpacingWithin(Ordering(0), cnt, 1, 1)

\* C9 as amended: for BITPLANE_CNT = 3 the distance between two consecutive
\* occurrences of a plane differs by at most one and a quarter slots from
\* the even spacing.
C9_SpacingWithinFiveQuarters ==
    (pc = "setup_a" /\ cnt = 3) => SpacingWithin(Ordering(0), cnt, 5, 4)

\* the ordering for three planes, in which plane 2 recurs after three slots
C9_Witness ==
    /\ pc = "setup_a" /\ cnt = 3
    /\ order = <<2, 1, 0, 2, 2, 1, 2>>
    /\ 3 \in Gaps(Ordering(0), 2)

\* every row of every plane of slot s
AllRows(s) == {<<s, p, r>> : p \in 0 .. cnt - 1, r \in 0 .. FRAME_ROWS - 1}

InFlip == pc \in {"flip", "flip_b", "flip_ret"}

\* C10: update_frame invokes the flip to slot s only after it has written
\* every row of every plane of slot s for this frame, and it writes nothing
\* from the invocation of the flip to its own return.
C10_FlipAfterCompleteEncode ==
    /\ [](InFlip => rows_done = AllRows(bufid))
    /\ [][InFlip => rows_done' = rows_done]_vars

\* the flip of the second frame is between its two stores
C10_Witness ==
    /\ pc = "flip_b" /\ bufid = 1 /\ backbuf_id = 1
    /\ rows_done = AllRows(1)
    /\ Cardinality(rows_done) = BITPLANE_CNT * FRAME_ROWS

\* C11: in single-ring mode (cfg->bufb was NULL at setup) a call of
\* i2s_parallel_flip_to_buffer, with any bufid, returns without changing any
\* descriptor or count: the state record is the same before and after, and
\* ring A is still a closed cycle.
C11_SingleRingFlipIsNoOp ==
    [][(pc = "flip" /\ pc' # pc /\ st # NULL /\ ~DoubleBuffer) =>
          /\ pc' = "flip_ret"
          /\ st' = st
          /\ ClosedCycle(st'.dmadesc_a, 0, st'.desccount_a)]_vars

\* a flip to buffer 1 has returned in single-ring mode, the peripheral running
C11_Witness ==
    /\ pc = "flip_ret" /\ st # NULL /\ ~DoubleBuffer
    /\ bufid = 1 /\ st.desccount_b = 0
    /\ tx_start /\ cur = DescPtr(0, 1) /\ st.desccount_a > 2

\* C12 as claimed: a call of i2s_parallel_flip_to_buffer while the device's
\* state is still NULL (before setup) ends in an error outcome: it never
\* returns to its caller as if nothing had happened.
C12_FlipBeforeSetupFailsFast == st = NULL => pc # "flip_ret"

\* C12 as amended: a call of i2s_parallel_flip_to_buffer while the device's
\* state is still NULL returns to its caller at once and changes nothing:
\* the state stays NULL, no descriptor is written, the peripheral is not
\* started, and no error is reported.
C12_FlipBeforeSetupIsSilentNoOp ==
    [][(pc = "flip" /\ st = NULL) =>
          /\ pc' = "flip_ret"
          /\ st' = NULL
          /\ UNCHANGED <<tx_start, cur, last_flip, fill_written, bufdesc>>]_vars

\* a flip to buffer 1 called before setup has returned
C12_Witness ==
    /\ pc = "flip_ret" /\ st = NULL /\ bufid = 1
    /\ ~tx_start /\ fill_written = {}

\* i2s_parallel_setup has asked the heap for the pool of ring r
PoolRequested(r) ==
    IF r = 0 THEN pc \notin {"setup_a", "calc"} \/ fill_r = 1
    ELSE DoubleBuffer /\ fill_r = 1 /\ pc # "calc"

\* C13: when the allocation of the descriptor pool of a ring (of at least
\* one descriptor) fails during i2s_parallel_setup, no descriptor is written
\* through the failed allocation and the peripheral is not started.
C13_AllocFailureIsFatal ==
    \A r \in {0, 1} :
        (r \in alloc_fails /\ PoolRequested(r) /\ Count(r) > 0) =>
            /\ \A w \in fill_written : w[1] # r
            /\ ~tx_start

\* the segment list has no segment at all (what app_main builds for a
\* bitplane count of zero), or a segment of size zero
InvalidList(bd) ==
    LET segs == Segments(bd, 0)
    IN  segs = <<>> \/ ~NonZeroSizes(segs)

\* C14: a configuration that violates an invariant (here: a chain input
\* with a zero-length segment, or the empty chain input of a bitplane count
\* of zero) is rejected by i2s_parallel_setup and never partially applied:
\* no descriptor is written and the peripheral is not started.
C14_InvalidConfigRejected ==
    (alloc_fails = {} /\ InvalidList(bufdesc[0])) =>
        /\ fill_written = {}
        /\ ~tx_start

\* update_frame has written a row
RowWritten == row_buf # NoRow

\* the word the x loop that ran last stored for column x
WordAt(xx) == written_word(xx)

\* the bit b (a power of two) of the value w, 0 or 1
Bit(w, b) == (w \div b) % 2

Columns == 0 .. DISPLAY_WIDTH - 1

\* C15: in every word of output row y, whatever the plane and the column, the
\* four row-address bits BIT_A .. BIT_D hold (y - 1) mod 16: 15 for row 0 and
\* y - 1 for every other row.
C15_RowAddressIsPreviousRow ==
    RowWritten =>
        \A xx \in Columns :
            (WordAt(xx) \div BIT_A) % 16 = (IF row_buf.y = 0 THEN 15 ELSE row_buf.y - 1)

\* row 0 of the last plane of slot 1 is written and carries address 15
C15_Witness ==
    /\ RowWritten /\ row_buf.y = 0 /\ row_buf.mem = <<1, BITPLANE_CNT - 1>>
    /\ cnt = BITPLANE_CNT
    /\ (WordAt(0) \div BIT_A) % 16 = 15

\* C16: in every word update_frame writes, BIT_OE is set if and only if the
\* column x is at or past brightness, for all planes and rows; so no word has
\* it with brightness = DISPLAY_WIDTH and every word has it with brightness = 0.
C16_BlankIffAtOrPastBrightness ==
    RowWritten =>
        /\ \A xx \in Columns : (Bit(WordAt(xx), BIT_OE) = 1) <=> (xx >= brightness)
        /\ brightness = DISPLAY_WIDTH => \A xx \in Columns : Bit(WordAt(xx), BIT_OE) = 0
        /\ brightness = 0 => \A xx \in Columns : Bit(WordAt(xx), BIT_OE) = 1

\* a row written with the default brightness: column 15 shown, column 16 blank
C16_Witness ==
    /\ RowWritten /\ brightness = DEFAULT_BRIGHTNESS /\ cnt = BITPLANE_CNT
    /\ row_buf.y = 7
    /\ Bit(WordAt(15), BIT_OE) = 0 /\ Bit(WordAt(16), BIT_OE) = 1

\* C17: in every (plane, row) update_frame writes, BIT_LAT is set in exactly
\* one word, the word of the last column, and clear in all others.
C17_LatchOnLastColumnOnly ==
    RowWritten =>
        /\ \A xx \in Columns :
              (Bit(WordAt(xx), BIT_LAT) = 1) <=> (xx = DISPLAY_WIDTH - 1)
        /\ Cardinality({xx \in Columns : Bit(WordAt(xx), BIT_LAT) = 1}) = 1

\* the last row of a plane is written, its last word latches
C17_Witness ==
    /\ RowWritten /\ row_buf.y = FRAME_ROWS - 1 /\ cnt = BITPLANE_CNT
    /\ row_buf.off = (FRAME_ROWS - 1) * DISPLAY_WIDTH
    /\ Bit(WordAt(DISPLAY_WIDTH - 1), BIT_LAT) = 1
    /\ Bit(WordAt(DISPLAY_WIDTH - 2), BIT_LAT) = 0

\* byte ch (0 red, 1 green, 2 blue) of framebuffer pixel (xx, yy)
Channel(xx, yy, ch) == FbByte(framebuf, (xx + yy * DISPLAY_WIDTH) * 3 + ch)

\* C20: for every plane p, row y and column x, BIT_R1/G1/B1 of the word
\* written are bit 8 - BITPLANE_CNT + p of the red/green/blue byte of pixel
\* (x, y), and BIT_R2/G2/B2 are that bit of the bytes of pixel (x, y + 16);
\* no other bit of the picture enters the word.
C20_ColourBitsArePlaneBitOfPixels ==
    RowWritten =>
        LET b == Pow2(8 - cnt + row_buf.mem[2])
            yy == row_buf.y
        IN  \A xx \in Columns :
                LET w == WordAt(xx)
                IN  /\ Bit(w, BIT_R1) = Bit(Channel(xx, yy, 0), b)
                    /\ Bit(w, BIT_G1) = Bit(Channel(xx, yy, 1), b)
                    /\ Bit(w, BIT_B1) = Bit(Channel(xx, yy, 2), b)
                    /\ Bit(w, BIT_R2) = Bit(Channel(xx, yy + 16, 0), b)
                    /\ Bit(w, BIT_G2) = Bit(Channel(xx, yy + 16, 1), b)
                    /\ Bit(w, BIT_B2) = Bit(Channel(xx, yy + 16, 2), b)

\* a row of plane 0 of a picture whose upper and lower pixels differ: the
\* word of column 0 has some colour bits set and some clear
C20_Witness ==
    /\ RowWritten /\ cnt = BITPLANE_CNT /\ row_buf.mem[2] = 0
    /\ framebuf.mul # 0 /\ framebuf.half # 0
    /\ WordAt(0) % 8 # (WordAt(0) \div 8) % 8
    /\ \E xx \in Columns : WordAt(xx) % 64 \notin {0, 63}

\* C18: fill_dma_desc gives every segment before the sentinel
\* ceil(size / DMA_MAX) descriptors, in the order of the segments; the
\* descriptors of a segment cover consecutive byte ranges of it from offset
\* 0, each of a length > 0 and <= DMA_MAX, and the lengths add up to the
\* segment's size; entries from the sentinel on get no descriptor.
C18_SegmentChunksCoverSegment ==
    pc = "setup_b" =>
        LET segs == Segments(bufdesc[0], 0)
            d == st.dmadesc_a
        IN  /\ NumFilled = SumCeils(segs)
            /\ \A k \in 1 .. Len(segs) :
                  LET first == SumCeils(SubSeq(segs, 1, k - 1))
                      c == Ceil(segs[k].size, DMA_MAX)
                  IN  /\ \A m \in 0 .. c - 1 :
                            LET r == d[first + m]
                            IN  /\ r.buf.mem = segs[k].memory
                                /\ r.length > 0 /\ r.length <= DMA_MAX
                                /\ r.size = r.length
                                /\ r.buf.off = IF m = 0 THEN 0
                                               ELSE d[first + m - 1].buf.off
                                                    + d[first + m - 1].length
                      /\ c > 0 => d[first + c - 1].buf.off + d[first + c - 1].length
                                   = segs[k].size

\* a segment of three descriptors and one of one, and an entry behind the
\* sentinel that got none
C18_Witness ==
    /\ pc = "setup_b"
    /\ Len(bufdesc[0]) = 4 /\ Len(Segments(bufdesc[0], 0)) = 2
    /\ bufdesc[0][1].size = 2 * DMA_MAX + 1 /\ bufdesc[0][2].size = 1
    /\ NumFilled = 4
    /\ st.dmadesc_a[2].length = 1 /\ st.dmadesc_a[2].buf.off = 2 * DMA_MAX
    /\ st.dmadesc_a[3].buf.mem = <<0, 1>>

\* the counters as they were before the last position was filled
TimesBefore ==
    LET ch == order[Len(order)]
    IN  [times EXCEPT ![ch] = @ - Pow2(cnt - ch)]

\* the plane at the last position filled had the minimal counter
LastChoiceMinimal ==
    Len(order) > 0 =>
        \A j \in 0 .. cnt - 1 : TimesBefore[order[Len(order)]] <= TimesBefore[j]

\* the planes whose counter equalled that of the plane chosen last
LastTied ==
    {j \in 0 .. cnt - 1 : TimesBefore[j] = TimesBefore[order[Len(order)]]}

\* the loop fills 2^BITPLANE_CNT - 1 positions, and the counter of plane p
\* has grown by 2^(BITPLANE_CNT - p) for each position p was placed at
SchedulerCounts ==
    /\ Len(order) = i /\ i <= Pow2(cnt) - 1
    /\ pc = "setup_a" => Len(order) = Pow2(cnt) - 1
    /\ \A p \in 0 .. cnt - 1 : times[p] = PlaneCount(order, p) * Pow2(cnt - p)

\* C19 as claimed: at each of the 2^BITPLANE_CNT - 1 positions the scheduler
\* places the plane whose counter is minimal, the lowest plane index among
\* those tied at the minimum, and adds 2^(BITPLANE_CNT - plane) to its counter.
C19_MinCounterLowestIndex ==
    pc \in {"sched", "setup_a"} =>
        /\ SchedulerCounts
        /\ LastChoiceMinimal
        /\ Len(order) > 0 => \A j \in LastTied : order[Len(order)] <= j

\* C19 as amended: at each of the 2^BITPLANE_CNT - 1 positions the scheduler
\* places the plane whose counter is minimal, the highest plane index among
\* those tied at the minimum, and adds 2^(BITPLANE_CNT - plane) to its counter.
C19_MinCounterHighestIndex ==
    pc \in {"sched", "setup_a"} =>
        /\ SchedulerCounts
        /\ LastChoiceMinimal
        /\ Len(order) > 0 => \A j \in LastTied : j <= order[Len(order)]

\* the first position for three planes: all counters tied at 0, plane 2 placed
C19_Witness ==
    /\ pc = "sched" /\ cnt = 3 /\ i = 1
    /\ order = <<2>> /\ times = [j \in 0 .. 2 |-> IF j = 2 THEN 2 ELSE 0]
    /\ LastTied = {0, 1, 2}

\* the number of descriptors of one bitplane buffer
DescsPerPlane == Ceil(BITPLANE_SZ * 2, DMA_MAX)

\* C21: once the peripheral is started, and through every flip, each
\* descriptor of ring j references memory of slot j's bitplane buffers only;
\* at every segment position the two rings reference the same plane, the
\* plane the scheduler placed there, so that the ring read in order is slot
\* j's bitplanes in the scheduler's order; and what the peripheral transfers
\* while in ring j is memory of slot j.
C21_RingsReferenceOwnSlot ==
    tx_start =>
        /\ \A k \in 1 .. Len(order) :
              /\ bufdesc[0][k].memory = <<0, order[k]>>
              /\ bufdesc[1][k].memory = <<1, order[k]>>
        /\ \A r \in {0, 1} :
              LET d == Pool(r)
                  per == DescsPerPlane
              IN  /\ Count(r) = per * Len(order)
                  /\ DOMAIN d = 0 .. per * Len(order) - 1
                  /\ \A k \in DOMAIN d :
                        d[k].buf = [mem |-> <<r, order[k \div per + 1]>>,
                                    off |-> (k % per) * DMA_MAX]
        /\ Deref(cur).buf.mem[1] = cur.ring

\* after the flip to slot 1 the peripheral is in ring B, in the middle of a
\* plane, while update_frame writes slot 0
C21_Witness ==
    /\ tx_start /\ last_flip = 1 /\ pc = "frame" /\ backbuf_id = 0
    /\ cur = DescPtr(1, 3) /\ Deref(cur).buf = [mem |-> <<1, order[2]>>, off |-> DMA_MAX]

\* C22: for every sentinel-terminated segment list, the empty list and
\* lists with zero-size segments included, every record fill_dma_desc writes,
\* the closing write to record n-1 included, has an index in 0 .. count-1,
\* count being what calc_needed_dma_descs_for returned and the number of
\* records allocated for the pool.
C22_FillWritesInsidePool ==
    \A w \in fill_written :
        /\ 0 <= w[2] /\ w[2] <= Count(w[1]) - 1
        /\ DOMAIN Pool(w[1]) = 0 .. Count(w[1]) - 1

====
